---- MODULE Spec2Model ----
(***************************************************************************)
(* Model of homework.py: the fitness-tracker module that turns a package   *)
(* of sensor readings into a one-line training report.                     *)
(*                                                                         *)
(* Numbers.  A Python float is an IEEE 754 binary64 number, modelled bit   *)
(* for bit as (-1)^neg * man * 2^exp with a mantissa of 53 bits (or zero,  *)
(* with its sign).  +, -, *, / and // round to nearest, ties to even, as   *)
(* the hardware does; ** calls pow of the C library, which promises an     *)
(* error below one unit in the last place only, so its rounding is a       *)
(* choice made at the start of a run (pow_rounding).  Infinities, NaN and  *)
(* subnormal numbers do not arise from the readings tried and are not      *)
(* modelled.  Python ints stay integers until an operation with a float    *)
(* converts them (FromInt).  The mantissas exceed the integers of the      *)
(* model checker, so they are kept as sequences of limbs.                  *)
(*                                                                         *)
(* Text.  A Python str is a sequence of Unicode code points.               *)
(***************************************************************************)
EXTENDS Integers, Sequences, FiniteSets, TLC

VARIABLES packages, idx, pc, training, info, message, stdout, exc, pow_rounding

vars == <<packages, idx, pc, training, info, message, stdout, exc, pow_rounding>>

-----------------------------------------------------------------------------
(* Natural numbers of any size: sequences of limbs, least significant      *)
(* first, without leading zero limbs.  The operations are functions, so    *)
(* that their arguments are evaluated once.                                *)

Abs(i) == IF i < 0 THEN -i ELSE i

Pow2[n \in Nat] == IF n = 0 THEN 1 ELSE 2 * Pow2[n - 1]

\* the limbs have 14 bits, so that a product of a limb and a number below
\* 2^17 stays within the integers of the model checker
LimbBits == 14

\* 2^LimbBits
LimbBase == 16384

Big == Seq(Nat)

Trim[a \in Big] ==
    IF a = <<>> \/ a[Len(a)] # 0 THEN a ELSE Trim[SubSeq(a, 1, Len(a) - 1)]

Limbs[n \in Nat] == IF n = 0 THEN <<>> ELSE <<n % LimbBase>> \o Limbs[n \div LimbBase]

BigValue[a \in Big] == IF a = <<>> THEN 0 ELSE a[1] + LimbBase * BigValue[Tail(a)]

IntBits[n \in Nat] == IF n = 0 THEN 0 ELSE 1 + IntBits[n \div 2]

BitLength[a \in Big] ==
    IF a = <<>> THEN 0 ELSE LimbBits * (Len(a) - 1) + IntBits[a[Len(a)]]

Limb(a, i) == IF i <= Len(a) THEN a[i] ELSE 0

BigAddCarry[a \in Big, b \in Big, c \in Nat] ==
    IF a = <<>> /\ b = <<>> THEN Limbs[c]
    ELSE LET s == Limb(a, 1) + Limb(b, 1) + c
         IN  <<s % LimbBase>>
             \o BigAddCarry[IF a = <<>> THEN a ELSE Tail(a),
                            IF b = <<>> THEN b ELSE Tail(b), s \div LimbBase]

BigAdd(a, b) == BigAddCarry[a, b, 0]

\* a - b - c for a >= b + c
BigSubBorrow[a \in Big, b \in Big, c \in Nat] ==
    IF a = <<>> THEN <<>>
    ELSE LET s == a[1] - Limb(b, 1) - c
         IN  <<s % LimbBase>>
             \o BigSubBorrow[Tail(a), IF b = <<>> THEN b ELSE Tail(b),
                             IF s < 0 THEN 1 ELSE 0]

BigSub(a, b) == Trim[BigSubBorrow[a, b, 0]]

\* -1, 0 or 1 as a < b, a = b or a > b
BigCompare[a \in Big, b \in Big] ==
    IF Len(a) # Len(b) THEN (IF Len(a) < Len(b) THEN -1 ELSE 1)
    ELSE IF a = <<>> THEN 0
    ELSE IF a[Len(a)] # b[Len(b)] THEN (IF a[Len(a)] < b[Len(b)] THEN -1 ELSE 1)
    ELSE BigCompare[Trim[SubSeq(a, 1, Len(a) - 1)], Trim[SubSeq(b, 1, Len(b) - 1)]]

\* a * n + c for n < 2^17
BigMulSmallCarry[a \in Big, n \in Nat, c \in Nat] ==
    IF a = <<>> THEN Limbs[c]
    ELSE LET s == a[1] * n + c
         IN  <<s % LimbBase>> \o BigMulSmallCarry[Tail(a), n, s \div LimbBase]

BigMulSmall(a, n) == Trim[BigMulSmallCarry[a, n, 0]]

BigMul[a \in Big, b \in Big] ==
    IF a = <<>> \/ b = <<>> THEN <<>>
    ELSE BigAdd(BigMulSmall(a, b[1]), Trim[<<0>> \o BigMul[a, Tail(b)]])

BigPow[a \in Big, e \in Nat] == IF e = 0 THEN <<1>> ELSE BigMul[a, BigPow[a, e - 1]]

\* the quotient and the remainder of the lower limbs, with the limb of the
\* quotient above them
BigDivJoin[lower \in Big \X Nat, top \in Nat] == << Append(lower[1], top), lower[2] >>

\* long division by n < 2^17 from the most significant limb down, r < n
\* the remainder carried in: the limbs of the quotient, one for each limb
\* of a, and the remainder
BigDivRem[a \in Big, n \in Nat, r \in Nat] ==
    IF a = <<>> THEN << <<>>, r >>
    ELSE BigDivJoin[BigDivRem[SubSeq(a, 1, Len(a) - 1), n,
                              (r * LimbBase + a[Len(a)]) % n],
                    (r * LimbBase + a[Len(a)]) \div n]

BigDivTrim[qr \in Big \X Nat] == << Trim[qr[1]], qr[2] >>

\* <<a \div n, a % n>> for 0 < n < 2^17
BigDivSmall[a \in Big, n \in Nat] == BigDivTrim[BigDivRem[a, n, 0]]

\* a * 2^k
BigShiftLeft[a \in Big, k \in Nat] ==
    IF a = <<>> THEN a
    ELSE [i \in 1..(k \div LimbBits) |-> 0] \o BigMulSmall(a, Pow2[k % LimbBits])

\* a quotient and its remainder as the quotient and a sticky bit: was
\* anything but zeros dropped, here or below
BigSticky[qr \in Big \X Nat, lower \in BOOLEAN] == << qr[1], qr[2] # 0 \/ lower >>

\* <<a \div 2^k, a % 2^k # 0>>
BigShiftRight[a \in Big, k \in Nat] ==
    BigSticky[BigDivSmall[SubSeq(a, (k \div LimbBits) + 1, Len(a)), Pow2[k % LimbBits]],
              \E i \in 1..Len(a) : i <= k \div LimbBits /\ a[i] # 0]

\* to nearest with ties to even, as the hardware rounds, or down or up, as
\* pow of the C library may
RoundingModes == {"even", "down", "up"}

\* q + half / 2 + (a sticky rest below the half) as an integer: rounded to
\* nearest, ties to even ("even"), rounded down ("down") or up ("up")
BigRoundHalf[q \in Big, half \in {0, 1}, sticky \in BOOLEAN, mode \in RoundingModes] ==
    LET up == CASE mode = "even" -> half = 1 /\ (sticky \/ Limb(q, 1) % 2 = 1)
                [] mode = "down" -> FALSE
                [] mode = "up"   -> half = 1 \/ sticky
    IN  IF up THEN BigAdd(q, <<1>>) ELSE q

\* g[1] / 2 as an integer, rounded, g[2] the sticky bit of what was
\* dropped below g[1]
BigHalve[g \in Big \X BOOLEAN, mode \in RoundingModes] ==
    BigRoundHalf[BigDivSmall[g[1], 2][1], Limb(g[1], 1) % 2, g[2], mode]

\* a / 2^k as an integer, rounded
BigShiftRightRound[a \in Big, k \in Nat, mode \in RoundingModes] ==
    IF k = 0 THEN a ELSE BigHalve[BigShiftRight[a, k - 1], mode]

-----------------------------------------------------------------------------
(* float                                                                   *)

\* the bits of the mantissa of a binary64 number, the hidden one included
Precision == 53

Float == [neg : BOOLEAN, man : Big, exp : Int]

Zero(negative) == [neg |-> negative, man |-> <<>>, exp |-> 0]

IsZero(f) == f.man = <<>>

\* the float (-1)^neg * r * 2^e for r of Precision bits, or of one bit more
\* after a carry out of the rounding
Renormalised[negative \in BOOLEAN, r \in Big, e \in Int] ==
    IF BitLength[r] > Precision
    THEN [neg |-> negative, man |-> BigDivSmall[r, 2][1], exp |-> e + 1]
    ELSE [neg |-> negative, man |-> r, exp |-> e]

\* the float next to (-1)^neg * m * 2^e in the direction of mode
RoundTo[negative \in BOOLEAN, m \in Big, e \in Int, mode \in RoundingModes] ==
    IF m = <<>> THEN Zero(negative)
    ELSE IF BitLength[m] <= Precision
    THEN [neg |-> negative, man |-> BigShiftLeft[m, Precision - BitLength[m]],
          exp |-> e - (Precision - BitLength[m])]
    ELSE Renormalised[negative,
                      BigShiftRightRound[m, BitLength[m] - Precision, mode],
                      e + (BitLength[m] - Precision)]

\* the float nearest to (-1)^neg * m * 2^e, ties to even
Round(negative, m, e) == RoundTo[negative, m, e, "even"]

\* float(i)
FromInt(i) == Round(i < 0, Limbs[Abs(i)], 0)

\* -f
FNeg[f \in Float] == [f EXCEPT !.neg = ~f.neg]

\* f * g
FMul[f \in Float, g \in Float] ==
    Round(f.neg # g.neg, BigMul[f.man, g.man], f.exp + g.exp)

\* (-1)^fneg * mf + (-1)^gneg * mg for mf, mg > 0, times 2^e
FAddAligned[fneg \in BOOLEAN, mf \in Big, gneg \in BOOLEAN, mg \in Big, e \in Int] ==
    IF fneg = gneg THEN Round(fneg, BigAdd(mf, mg), e)
    ELSE IF BigCompare[mf, mg] = 0 THEN Zero(FALSE)
    ELSE IF BigCompare[mf, mg] > 0 THEN Round(fneg, BigSub(mf, mg), e)
    ELSE Round(gneg, BigSub(mg, mf), e)

\* f + g
FAdd[f \in Float, g \in Float] ==
    IF IsZero(f) /\ IsZero(g) THEN Zero(f.neg /\ g.neg)
    ELSE IF IsZero(f) THEN g
    ELSE IF IsZero(g) THEN f
    ELSE IF f.exp < g.exp
    THEN FAddAligned[f.neg, f.man, g.neg, BigShiftLeft[g.man, g.exp - f.exp], f.exp]
    ELSE FAddAligned[f.neg, BigShiftLeft[f.man, f.exp - g.exp], g.neg, g.man, g.exp]

\* f - g
FSub[f \in Float, g \in Float] == FAdd[f, FNeg[g]]

\* twice the quotient, with the last bit set when the division left a rest
BigStickyQuotient[qr \in Big \X Nat] ==
    BigAdd(BigShiftLeft[qr[1], 1], IF qr[2] # 0 THEN <<1>> ELSE <<>>)

\* f / n for an int n other than 0 (the callers raise ZeroDivisionError
\* for 0): the quotient with 30 more bits and a sticky bit, rounded
FDivInt[f \in Float, n \in Int] ==
    Round(f.neg # (n < 0),
          BigStickyQuotient[BigDivSmall[BigShiftLeft[f.man, 30], Abs(n)]],
          f.exp - 31)

\* the floor of (-1)^minus * (qr[1] + a rest), the rest being zero when
\* exact, as a float; a zero carries the sign of the quotient
FloorOf[minus \in BOOLEAN, qr \in Big \X Nat, exact \in BOOLEAN] ==
    IF minus /\ ~(exact /\ qr[2] = 0) THEN Round(TRUE, BigAdd(qr[1], <<1>>), 0)
    ELSE Round(minus, qr[1], 0)

\* the floor of (-1)^minus * |f| / n, whole[1] the whole part of |f| and
\* whole[2] telling whether |f| has a fraction
FloorDivWhole[minus \in BOOLEAN, whole \in Big \X BOOLEAN, n \in Nat] ==
    FloorOf[minus, BigDivSmall[whole[1], n], ~whole[2]]

\* f // n for an int n other than 0: the floor of the quotient, as a float
FFloorDivInt[f \in Float, n \in Int] ==
    FloorDivWhole[f.neg # (n < 0),
                  IF f.exp >= 0 THEN <<BigShiftLeft[f.man, f.exp], FALSE>>
                  ELSE BigShiftRight[f.man, -f.exp],
                  Abs(n)]

\* f ** e for an int e >= 0: pow(f, e) of the C library, the power
\* rounded down or up
FPow(f, e) ==
    RoundTo[f.neg /\ e % 2 = 1, BigPow[f.man, e], e * f.exp, pow_rounding]

\* f < g
FLess[f \in Float, g \in Float] ==
    LET e  == IF f.exp < g.exp THEN f.exp ELSE g.exp
        c  == BigCompare[BigShiftLeft[f.man, f.exp - e],
                         BigShiftLeft[g.man, g.exp - e]]
    IN  IF IsZero(f) /\ IsZero(g) THEN FALSE
        ELSE IF IsZero(f) THEN ~g.neg
        ELSE IF IsZero(g) THEN f.neg
        ELSE IF f.neg # g.neg THEN f.neg
        ELSE IF f.neg THEN c > 0 ELSE c < 0

\* f == g
FEq(f, g) == (IsZero(f) /\ IsZero(g)) \/ f = g

-----------------------------------------------------------------------------
(* Text: format(x, '.3f')                                                  *)

DigitsOf[n \in Nat] == IF n < 10 THEN <<48 + n>> ELSE DigitsOf[n \div 10] \o <<48 + (n % 10)>>

\* |f| * scale rounded to the nearest integer, ties to even
Scaled[f \in Float, scale \in Nat] ==
    BigValue[IF f.exp >= 0 THEN BigShiftLeft[BigMulSmall(f.man, scale), f.exp]
             ELSE BigShiftRightRound[BigMulSmall(f.man, scale), -f.exp, "even"]]

\* the sign, the digits of k before the last three, a point, the last three
Fixed3[negative \in BOOLEAN, k \in Nat] ==
    (IF negative THEN <<45>> ELSE <<>>)
    \o DigitsOf[k \div 1000]
    \o <<46, 48 + ((k \div 100) % 10), 48 + ((k \div 10) % 10), 48 + (k % 10)>>

\* format(f, '.2f')
FormatFixed2(f) ==
    SubSeq(Fixed3[f.neg, 10 * Scaled[f, 100]], 1,
           Len(Fixed3[f.neg, 10 * Scaled[f, 100]]) - 1)

FormatFixed3(f) == Fixed3[f.neg, Scaled[f, 1000]]

-----------------------------------------------------------------------------
(* Exceptions: a call either returns a value or raises                     *)

Ok(v) == [exc |-> "None", val |-> v]

Raise(e) == [exc |-> e]

Raised(r) == r.exc # "None"

None == [cls |-> "None"]

-----------------------------------------------------------------------------
(* class Training and its subclasses                                       *)

\* 0.65
Training_LEN_STEP == FDivInt[FromInt(65), 100]

\* 1.38
Swimming_LEN_STEP == FDivInt[FromInt(138), 100]

M_IN_KM == 1000

MIN_IN_HR == 60

SPEED_MAIN_CALORIE_COEFFICIENT == 18

SPEED_MEAN_CALORIE_DEDUCTED == 20

\* 0.035
LESS_IMPACT_WEIGHT_CALORIE == FDivInt[FromInt(35), 1000]

\* 0.029
MAIN_INFLUENCE_WEIGHT_CALORIE == FDivInt[FromInt(29), 1000]

EXPONENT == 2

ACTUAL_EFFECT_SWIM_WEIGHT == 2

\* 1.1
APPROACH_MAX_SPEED == FDivInt[FromInt(11), 10]

\* LEN_STEP without the override of Swimming
LEN_STEP_not_overridden(cls) == Training_LEN_STEP

\* self.LEN_STEP: the class attribute, overridden by Swimming
LEN_STEP(cls) == IF cls = "Swimming" THEN Swimming_LEN_STEP ELSE Training_LEN_STEP

\* Training(*data)
Training_init(data) ==
    IF Len(data) # 3 THEN Raise("TypeError")
    ELSE Ok([cls |-> "Training", action |-> data[1], duration_h |-> data[2],
             weight_kg |-> data[3]])

\* Running(*data)
Running_init(data) ==
    IF Len(data) # 3 THEN Raise("TypeError")
    ELSE Ok([cls |-> "Running", action |-> data[1], duration_h |-> data[2],
             weight_kg |-> data[3]])

\* SportsWalking(*data)
SportsWalking_init(data) ==
    IF Len(data) # 4 THEN Raise("TypeError")
    ELSE Ok([cls |-> "SportsWalking", action |-> data[1], duration_h |-> data[2],
             weight_kg |-> data[3], height_cm |-> data[4]])

\* Swimming(*data)
Swimming_init(data) ==
    IF Len(data) # 5 THEN Raise("TypeError")
    ELSE Ok([cls |-> "Swimming", action |-> data[1], duration_h |-> data[2],
             weight_kg |-> data[3], length_pool_m |-> data[4],
             count_pool |-> data[5]])

\* cls(*data)
Construct(cls, data) ==
    CASE cls = "Running"       -> Running_init(data)
      [] cls = "SportsWalking" -> SportsWalking_init(data)
      [] cls = "Swimming"      -> Swimming_init(data)
      [] OTHER                 -> Training_init(data)

Training_get_distance(self) ==
    FDivInt[FMul[FromInt(self.action), LEN_STEP(self.cls)], M_IN_KM]

Training_get_mean_speed(self) ==
    IF self.duration_h = 0 THEN Raise("ZeroDivisionError")
    ELSE Ok(FDivInt[Training_get_distance(self), self.duration_h])

Training_get_spent_calories(self) == Raise("NotImplementedError")

Swimming_get_mean_speed(self) ==
    IF self.duration_h = 0 THEN Raise("ZeroDivisionError")
    ELSE Ok(FDivInt[FDivInt[FromInt(self.length_pool_m * self.count_pool),
                      M_IN_KM],
                 self.duration_h])

\* get_mean_speed without the override of Swimming
get_mean_speed_inherited(self) == Training_get_mean_speed(self)

\* self.get_mean_speed(): dispatch on the class of self
get_mean_speed(self) ==
    IF self.cls = "Swimming" THEN Swimming_get_mean_speed(self)
    ELSE Training_get_mean_speed(self)

\* the calories of Running with the hours not converted to minutes
Running_get_spent_calories_per_hour(self) ==
    LET speed == get_mean_speed(self)
    IN  IF Raised(speed) THEN speed
        ELSE Ok(FMul[FDivInt[FMul[FSub[FMul[FromInt(SPEED_MAIN_CALORIE_COEFFICIENT),
                                         speed.val],
                                    FromInt(SPEED_MEAN_CALORIE_DEDUCTED)],
                               FromInt(self.weight_kg)],
                          M_IN_KM],
                     FromInt(self.duration_h)])

\* the calories of Running with the operands of the subtraction exchanged
Running_get_spent_calories_swapped(self) ==
    LET speed == get_mean_speed(self)
    IN  IF Raised(speed) THEN speed
        ELSE Ok(FMul[FMul[FDivInt[FMul[FSub[FromInt(SPEED_MEAN_CALORIE_DEDUCTED),
                                         FMul[FromInt(SPEED_MAIN_CALORIE_COEFFICIENT),
                                              speed.val]],
                                    FromInt(self.weight_kg)],
                               M_IN_KM],
                          FromInt(self.duration_h)],
                     FromInt(MIN_IN_HR)])

Running_get_spent_calories(self) ==
    LET speed == get_mean_speed(self)
    IN  IF Raised(speed) THEN speed
        ELSE Ok(FMul[FMul[FDivInt[FMul[FSub[FMul[FromInt(SPEED_MAIN_CALORIE_COEFFICIENT),
                                              speed.val],
                                         FromInt(SPEED_MEAN_CALORIE_DEDUCTED)],
                                    FromInt(self.weight_kg)],
                               M_IN_KM],
                          FromInt(self.duration_h)],
                     FromInt(MIN_IN_HR)])

\* the calories of SportsWalking with / in the place of //
SportsWalking_get_spent_calories_true_division(self) ==
    LET speed == get_mean_speed(self)
    IN  IF Raised(speed) THEN speed
        ELSE IF self.height_cm = 0 THEN Raise("ZeroDivisionError")
        ELSE Ok(FMul[FMul[FAdd[FMul[LESS_IMPACT_WEIGHT_CALORIE,
                                    FromInt(self.weight_kg)],
                               FMul[FMul[FDivInt[FPow(speed.val, EXPONENT),
                                              self.height_cm],
                                         MAIN_INFLUENCE_WEIGHT_CALORIE],
                                    FromInt(self.weight_kg)]],
                          FromInt(self.duration_h)],
                     FromInt(MIN_IN_HR)])

SportsWalking_get_spent_calories(self) ==
    LET speed == get_mean_speed(self)
    IN  IF Raised(speed) THEN speed
        ELSE IF self.height_cm = 0 THEN Raise("ZeroDivisionError")
        ELSE Ok(FMul[FMul[FAdd[FMul[LESS_IMPACT_WEIGHT_CALORIE,
                                    FromInt(self.weight_kg)],
                               FMul[FMul[FFloorDivInt[FPow(speed.val, EXPONENT),
                                                   self.height_cm],
                                         MAIN_INFLUENCE_WEIGHT_CALORIE],
                                    FromInt(self.weight_kg)]],
                          FromInt(self.duration_h)],
                     FromInt(MIN_IN_HR)])

\* the calories of Swimming with the parentheses of the sum lost
Swimming_get_spent_calories_no_parentheses(self) ==
    LET speed == get_mean_speed(self)
    IN  IF Raised(speed) THEN speed
        ELSE Ok(FAdd[speed.val,
                     FMul[FMul[APPROACH_MAX_SPEED,
                               FromInt(ACTUAL_EFFECT_SWIM_WEIGHT)],
                          FromInt(self.weight_kg)]])

Swimming_get_spent_calories(self) ==
    LET speed == get_mean_speed(self)
    IN  IF Raised(speed) THEN speed
        ELSE Ok(FMul[FMul[FAdd[speed.val, APPROACH_MAX_SPEED],
                          FromInt(ACTUAL_EFFECT_SWIM_WEIGHT)],
                     FromInt(self.weight_kg)])

\* self.get_spent_calories(): dispatch on the class of self
get_spent_calories(self) ==
    CASE self.cls = "Running"       -> Running_get_spent_calories(self)
      [] self.cls = "SportsWalking" -> SportsWalking_get_spent_calories(self)
      [] self.cls = "Swimming"      -> Swimming_get_spent_calories(self)
      [] OTHER                      -> Training_get_spent_calories(self)

\* the arguments are evaluated left to right; the first exception propagates
show_training_info(self) ==
    LET speed    == get_mean_speed(self)
        calories == get_spent_calories(self)
    IN  IF Raised(speed) THEN speed
        ELSE IF Raised(calories) THEN calories
        ELSE Ok([training_type |-> self.cls,
                 duration      |-> self.duration_h,
                 distance      |-> Training_get_distance(self),
                 speed         |-> speed.val,
                 calories      |-> calories.val])

-----------------------------------------------------------------------------
(* class InfoMessage                                                       *)

\* the code points of type(self).__name__
NameText(cls) ==
    CASE cls = "Running"       -> <<82, 117, 110, 110, 105, 110, 103>>
      [] cls = "SportsWalking" -> <<83, 112, 111, 114, 116, 115, 87, 97, 108, 107,
                                    105, 110, 103>>
      [] cls = "Swimming"      -> <<83, 119, 105, 109, 109, 105, 110, 103>>
      [] OTHER                 -> <<84, 114, 97, 105, 110, 105, 110, 103>>

\* the literal parts of the f-string of get_message, in order
MessageLiterals ==
    << <<1058, 1080, 1087, 32, 1090, 1088, 1077, 1085, 1080, 1088, 1086, 1074,
         1082, 1080, 58, 32>>,
       <<59, 32, 1044, 1083, 1080, 1090, 1077, 1083, 1100, 1085, 1086, 1089,
         1090, 1100, 58, 32>>,
       <<32, 1095, 46, 59, 32, 1044, 1080, 1089, 1090, 1072, 1085, 1094, 1080,
         1103, 58, 32>>,
       <<32, 1082, 1084, 59, 32, 1057, 1088, 46, 32, 1089, 1082, 1086, 1088,
         1086, 1089, 1090, 1100, 58, 32>>,
       <<32, 1082, 1084, 47, 1095, 59, 32, 1055, 1086, 1090, 1088, 1072, 1095,
         1077, 1085, 1086, 32, 1082, 1082, 1072, 1083, 58, 32>>,
       <<46>> >>

\* the f-string: the literal parts with the five replacement fields
get_message(self) ==
    MessageLiterals[1] \o NameText(self.training_type)
        \o MessageLiterals[2] \o FormatFixed3(FromInt(self.duration))
        \o MessageLiterals[3] \o FormatFixed3(self.distance)
        \o MessageLiterals[4] \o FormatFixed3(self.speed)
        \o MessageLiterals[5] \o FormatFixed3(self.calories)
        \o MessageLiterals[6]

-----------------------------------------------------------------------------
(* read_package                                                            *)

\* the table with the base class in the place of Running
detrmining_type_training_base ==
    [RUN |-> "Training", WLK |-> "SportsWalking", SWM |-> "Swimming"]

detrmining_type_training ==
    [RUN |-> "Running", WLK |-> "SportsWalking", SWM |-> "Swimming"]

\* read_package with the arguments unpacked before the type is looked up
read_package_arity_first(workout_type, data) ==
    IF Len(data) < 3 THEN Raise("TypeError")
    ELSE IF workout_type \notin DOMAIN detrmining_type_training
    THEN Raise("ValueError")
    ELSE Construct(detrmining_type_training[workout_type], data)

read_package(workout_type, data) ==
    IF workout_type \notin DOMAIN detrmining_type_training
    THEN Raise("ValueError")
    ELSE Construct(detrmining_type_training[workout_type], data)

-----------------------------------------------------------------------------
(* The packages: the list of __main__, and single packages drawn from a    *)
(* bounded set of readings                                                 *)

MainPackages ==
    << <<"SWM", <<720, 1, 80, 25, 40>> >>,
       <<"RUN", <<15000, 1, 75>> >>,
       <<"WLK", <<9000, 1, 75, 180>> >> >>

\* the longest argument list tried
MaxArgs == 5

\* action counts 720 * k are tried for k up to MaxScale
MaxScale == 3

Codes == {"RUN", "WLK", "SWM", "XYZ"}

ArgValues(i) ==
    CASE i = 1 -> {-720, 0, 9000, 15000} \cup {720 * k : k \in 1..MaxScale}
      [] i = 2 -> {0, 1, 2}
      [] i = 3 -> {0, 75, 80}
      [] i = 4 -> {0, 2, 25, 180}
      [] OTHER -> {40}

RECURSIVE DataLists(_)
DataLists(n) ==
    IF n = 0 THEN {<<>>}
    ELSE {Append(l, v) : l \in DataLists(n - 1), v \in ArgValues(n)}

Inputs == {<<c, d>> : c \in Codes, d \in UNION {DataLists(n) : n \in 0..MaxArgs}}

-----------------------------------------------------------------------------
(* The program: for workout_type, data in packages: main(read_package(..)) *)

Init ==
    /\ packages \in {MainPackages} \cup {<<p>> : p \in Inputs}
    /\ idx = 1
    /\ pc = "read_package"
    /\ training = None
    /\ info = None
    /\ message = <<>>
    /\ stdout = <<>>
    /\ exc = "None"
    /\ pow_rounding \in RoundingModes

\* training = read_package(workout_type, data)
ReadPackage ==
    /\ pc = "read_package"
    /\ \E r \in {read_package(packages[idx][1], packages[idx][2])} :
           IF Raised(r)
           THEN /\ exc' = r.exc
                /\ pc' = "traceback"
                /\ UNCHANGED training
           ELSE /\ training' = r.val
                /\ pc' = "show_training_info"
                /\ UNCHANGED exc
    /\ UNCHANGED <<packages, idx, info, message, stdout, pow_rounding>>

\* info = training.show_training_info()
ShowTrainingInfo ==
    /\ pc = "show_training_info"
    /\ \E r \in {show_training_info(training)} :
           IF Raised(r)
           THEN /\ exc' = r.exc
                /\ pc' = "traceback"
                /\ UNCHANGED info
           ELSE /\ info' = r.val
                /\ pc' = "get_message"
                /\ UNCHANGED exc
    /\ UNCHANGED <<packages, idx, training, message, stdout, pow_rounding>>

\* info.get_message()
GetMessage ==
    /\ pc = "get_message"
    /\ message' = get_message(info)
    /\ pc' = "print"
    /\ UNCHANGED <<packages, idx, training, info, stdout, exc, pow_rounding>>

\* the loop left after its first item
PrintLine_break ==
    /\ pc = "print"
    /\ stdout' = Append(stdout, message)
    /\ idx' = idx + 1
    /\ pc' = "exit"
    /\ UNCHANGED <<packages, training, info, message, exc, pow_rounding>>

\* print(...), then the next item of the loop, or the end of the program
PrintLine ==
    /\ pc = "print"
    /\ stdout' = Append(stdout, message)
    /\ idx' = idx + 1
    /\ pc' = IF idx + 1 > Len(packages) THEN "exit" ELSE "read_package"
    /\ UNCHANGED <<packages, training, info, message, exc, pow_rounding>>

Next == ReadPackage \/ ShowTrainingInfo \/ GetMessage \/ PrintLine

Spec == Init /\ [][Next]_vars

\* the interpreter runs the program to its end
FairSpec == Spec /\ WF_vars(Next)

-----------------------------------------------------------------------------
(* Properties                                                              *)

\* |a - b|
BigAbsDiff(a, b) == IF BigCompare[a, b] >= 0 THEN BigSub(a, b) ELSE BigSub(b, a)

\* the float f is the number num / den (den > 0) to within n units in the
\* last place of f
Near(f, num, den, n) ==
    LET up   == IF f.exp > 0 THEN f.exp ELSE 0
        down == IF f.exp < 0 THEN -f.exp ELSE 0
        lhs  == BigShiftLeft[BigMulSmall(f.man, den), up]
        rhs  == BigShiftLeft[Limbs[Abs(num)], down]
    IN  /\ IsZero(f) <=> num = 0
        /\ ~IsZero(f) => (f.neg <=> num < 0)
        /\ BigCompare[BigAbsDiff(lhs, rhs), BigShiftLeft[Limbs[n * den], up]] <= 0

\* the floats f and g are equal to within n units in the last place of g
WithinUlps(f, g, n) ==
    LET e  == IF f.exp < g.exp THEN f.exp ELSE g.exp
        mf == BigShiftLeft[f.man, f.exp - e]
        mg == BigShiftLeft[g.man, g.exp - e]
    IN  \/ IsZero(f) /\ IsZero(g)
        \/ /\ ~IsZero(f) /\ ~IsZero(g)
           /\ f.neg = g.neg
           /\ BigCompare[BigAbsDiff(mf, mg), BigShiftLeft[Limbs[n], g.exp - e]] <= 0

\* the package of the current iteration of the loop
Item == packages[idx]

ItemType == Item[1]

ItemData == Item[2]

\* read_package has returned or raised for the current package
Dispatched == pc \in {"show_training_info", "get_message", "print", "traceback"}

\* info is the InfoMessage of the current package
Summarised == pc \in {"get_message", "print"}

KnownTypes == {"RUN", "WLK", "SWM"}

Arity(workout_type) ==
    CASE workout_type = "RUN" -> 3
      [] workout_type = "WLK" -> 4
      [] workout_type = "SWM" -> 5

\* C1: read_package with a workout type other than RUN, WLK and SWM raises
\* ValueError whatever the length of data is, and no Training object is
\* built; the error differs from the TypeError of a wrong number of
\* arguments (raised for a known type) and from NotImplementedError.
C1_UnknownTypeRaisesValueError ==
    /\ (Dispatched /\ ItemType \notin KnownTypes) =>
          /\ pc = "traceback"
          /\ exc = "ValueError"
          /\ exc \notin {"TypeError", "NotImplementedError"}
          /\ training = None
          /\ info = None
    /\ (Dispatched /\ ItemType \in KnownTypes
                   /\ Len(ItemData) # Arity(ItemType)) =>
          /\ pc = "traceback"
          /\ exc = "TypeError"

C1_Witness ==
    /\ pc = "traceback"
    /\ ItemType = "XYZ"
    /\ Len(ItemData) = 3
    /\ exc = "ValueError"

\* text p occurs in text s at position at
StartsWith(s, p, at) ==
    /\ at >= 1
    /\ at + Len(p) - 1 <= Len(s)
    /\ SubSeq(s, at, at + Len(p) - 1) = p

\* the first position from at on where p occurs in s, or 0
Find(s, p, at) ==
    LET hits == {i \in at..(Len(s) - Len(p) + 1) : StartsWith(s, p, i)}
    IN  IF hits = {} THEN 0 ELSE CHOOSE i \in hits : \A j \in hits : i <= j

\* the classes of the three packages of __main__, in list order
MainClasses == <<"Swimming", "Running", "SportsWalking">>

\* C2 (steps): within one iteration the steps are read_package, then
\* show_training_info, then get_message, then print, and only print moves
\* to the next package and writes exactly one line.
C2_StepOrder ==
    /\ (pc = "read_package") => pc' \in {"show_training_info", "traceback"}
    /\ (pc = "show_training_info") => pc' \in {"get_message", "traceback"}
    /\ (pc = "get_message") => pc' = "print"
    /\ (pc = "print") =>
          /\ pc' = IF idx < Len(packages) THEN "read_package" ELSE "exit"
          /\ idx' = idx + 1
          /\ message = get_message(info)
          /\ stdout' = Append(stdout, message)
          /\ Find(stdout'[idx], NameText(training.cls), 1) > 0
    /\ (pc # "print") => (idx' = idx /\ stdout' = stdout)
    /\ (pc \in {"exit", "traceback"}) => UNCHANGED vars

\* C2 (lines): while the list of __main__ is processed no exception is
\* raised, one line is on stdout for each package already handled, and the
\* i-th line is the report of the i-th package.
C2_LinesInOrder ==
    (packages = MainPackages) =>
        /\ exc = "None"
        /\ pc # "traceback"
        /\ Len(packages) = 3
        /\ Len(stdout) = idx - 1
        /\ \A i \in 1..Len(stdout) :
              Find(stdout[i], NameText(MainClasses[i]), 1) > 0
        /\ (pc = "exit") => Len(stdout) = 3

\* C2: the program run on the list of __main__ handles SWM, RUN, WLK in
\* that order, each with read_package, show_training_info, get_message and
\* print before the next one starts, prints three lines in list order and
\* ends without an exception.
C2_MainRunsInOrder ==
    /\ [][C2_StepOrder]_vars
    /\ [](C2_LinesInOrder)
    /\ (packages = MainPackages) ~> (pc = "exit" /\ Len(stdout) = 3 /\ exc = "None")

C2_Witness ==
    /\ packages = MainPackages
    /\ pc = "exit"
    /\ Len(stdout) = 3
    /\ Find(stdout[1], NameText("Swimming"), 1) > 0
    /\ Find(stdout[3], NameText("SportsWalking"), 1) > 0

RunPackage == <<"RUN", <<15000, 1, 75>> >>

SwimPackage == <<"SWM", <<720, 1, 80, 25, 40>> >>

WalkPackage == <<"WLK", <<9000, 1, 75, 180>> >>

\* C3: read_package("RUN", [15000, 1, 75]) followed by show_training_info
\* gives training_type "Running", duration 1, distance 9.75, speed 9.75 and
\* calories (18 * 9.75 - 20) * 75 / 1000 * 1 * 60 = 699.75; the report
\* shows them as 9.750 and 699.750.
C3_RunningSummary ==
    (Summarised /\ Item = RunPackage) =>
        /\ info = [training_type |-> "Running",
                   duration      |-> 1,
                   distance      |-> FDivInt[FromInt(39), 4],
                   speed         |-> FDivInt[FromInt(39), 4],
                   calories      |-> FDivInt[FromInt(2799), 4]]
        /\ Near(info.distance, 975, 100, 0)
        /\ Near(info.calories, 69975, 100, 0)
        /\ (pc = "print") =>
              /\ Find(message, NameText("Running"), 1) > 0
              /\ Find(message, <<32, 49, 46, 48, 48, 48, 32>>, 1) > 0
              /\ Find(message, <<32, 57, 46, 55, 53, 48, 32>>, 1) > 0
              /\ Find(message, <<32, 54, 57, 57, 46, 55, 53, 48, 46>>, 1) > 0

C3_Witness ==
    /\ pc = "print"
    /\ Item = RunPackage
    /\ packages = MainPackages
    /\ Near(info.calories, 69975, 100, 0)

\* C4: read_package("SWM", [720, 1, 80, 25, 40]) followed by
\* show_training_info gives training_type "Swimming", speed
\* 25 * 40 / 1000 / 1 = 1 (exactly), calories (1 + 1.1) * 2 * 80 = 336
\* (exactly) and distance 720 * 1.38 / 1000 = 0.9936 (to the last places of
\* the float); the report shows 1.000, 336.000 and 0.994.
C4_SwimmingSummary ==
    (Summarised /\ Item = SwimPackage) =>
        /\ info.training_type = "Swimming"
        /\ info.duration = 1
        /\ info.speed = FromInt(1)
        /\ info.calories = FromInt(336)
        /\ Near(info.distance, 9936, 10000, 3)
        /\ (pc = "print") =>
              /\ Find(message, NameText("Swimming"), 1) > 0
              /\ Find(message, <<32, 48, 46, 57, 57, 52, 32>>, 1) > 0
              /\ Find(message, <<32, 49, 46, 48, 48, 48, 32, 1082>>, 1) > 0
              /\ Find(message, <<32, 51, 51, 54, 46, 48, 48, 48, 46>>, 1) > 0

C4_Witness ==
    /\ pc = "print"
    /\ Item = SwimPackage
    /\ packages = MainPackages
    /\ info.speed = FromInt(1)
    /\ info.calories = FromInt(336)

\* floor(speed ^ 2 / height) of the current SportsWalking record, computed
\* in integers, without rounding, from the speed of info (a speed below 1
\* has the square below 1, and the term 0)
HeightTerm ==
    LET square == BigMul[info.speed.man, info.speed.man]
        whole  == IF info.speed.exp >= 0
                  THEN BigShiftLeft[square, 2 * info.speed.exp]
                  ELSE BigShiftRight[square, -2 * info.speed.exp][1]
    IN  BigValue[BigDivSmall[whole, training.height_cm][1]]

\* C5: the calories of every SportsWalking record are
\* (0.035 * weight + floor(speed^2 / height) * 0.029 * weight) * duration * 60
\* to within the rounding of the six float operations (six units in the
\* last place), the quotient floored before it is multiplied by 0.029,
\* whichever way pow rounds the square.  For ("WLK", [9000, 1, 75, 180]) the
\* speed is 5.85, the floored term is 0 and the calories are
\* 0.035 * 75 * 1 * 60 = 157.5, shown as 157.500.
C5_WalkingFloorDivision ==
    /\ (Summarised /\ training.cls = "SportsWalking") =>
          Near(info.calories,
               (35 * training.weight_kg + HeightTerm * 29 * training.weight_kg)
                   * training.duration_h * 60,
               1000, 6)
    /\ (Summarised /\ Item = WalkPackage) =>
          /\ Near(info.speed, 585, 100, 1)
          /\ HeightTerm = 0
          /\ Near(info.calories, 1575, 10, 1)
          /\ (pc = "print") =>
                Find(message, <<32, 49, 53, 55, 46, 53, 48, 48, 46>>, 1) > 0

C5_Witness ==
    /\ pc = "print"
    /\ Item = WalkPackage
    /\ Near(info.speed, 585, 100, 1)
    /\ HeightTerm = 0
    /\ Near(info.calories, 1575, 10, 1)

\* C6: the mean speed of a Swimming record is decided by length_pool_m,
\* count_pool and duration_h alone: a record that differs from the current
\* one in action only has the same mean speed, and the same calories.
C6_SwimmingSpeedIgnoresAction ==
    (Summarised /\ training.cls = "Swimming") =>
        \A a \in ArgValues(1) :
            LET other == [training EXCEPT !.action = a]
            IN  /\ get_mean_speed(other) = Ok(info.speed)
                /\ get_spent_calories(other) = Ok(info.calories)
                /\ Near(info.speed,
                        training.length_pool_m * training.count_pool,
                        M_IN_KM * training.duration_h, 2)

C6_Witness ==
    /\ pc = "print"
    /\ training.cls = "Swimming"
    /\ training.action = 720
    /\ training.length_pool_m = 25
    /\ \E a \in ArgValues(1) :
          /\ a # training.action
          /\ get_mean_speed([training EXCEPT !.action = a]) = Ok(info.speed)

\* the current Running record with another action count
OtherAction(a) == [training EXCEPT !.action = a]

\* C7 (as claimed): of two Running records with equal weight and equal
\* duration, the one with the larger mean speed has the larger calories.
C7_CaloriesIncreaseWithSpeed ==
    (Summarised /\ training.cls = "Running") =>
        \A a \in ArgValues(1) :
            FLess[info.speed, get_mean_speed(OtherAction(a)).val]
                => FLess[info.calories, get_spent_calories(OtherAction(a)).val]

\* C7 (amended): of two Running records with equal weight > 0 and equal
\* duration > 0, the one with the larger mean speed has the larger
\* calories; with weight 0 the calories are zero whatever the speed is.
C7_CaloriesIncreaseWithSpeedPositiveWeight ==
    (Summarised /\ training.cls = "Running") =>
        \A a \in ArgValues(1) :
            LET speed    == get_mean_speed(OtherAction(a)).val
                calories == get_spent_calories(OtherAction(a)).val
            IN  /\ (training.weight_kg > 0 /\ training.duration_h > 0
                        /\ FLess[info.speed, speed])
                      => FLess[info.calories, calories]
                /\ (training.weight_kg = 0)
                      => (IsZero(info.calories) /\ IsZero(calories))

C7_Witness ==
    /\ pc = "print"
    /\ training.cls = "Running"
    /\ training.weight_kg = 75
    /\ training.duration_h = 2
    /\ training.action = 9000
    /\ FLess[info.speed, get_mean_speed(OtherAction(15000)).val]
    /\ FLess[info.calories, get_spent_calories(OtherAction(15000)).val]

\* the step length of the claim, in hundredths of a metre
ClaimedStep(cls) == IF cls = "Swimming" THEN 138 ELSE 65

\* the records that differ from the current one in duration, weight and
\* the fields of the subclass only
SameAction ==
    {[training EXCEPT !.duration_h = d, !.weight_kg = w] :
        d \in ArgValues(2), w \in ArgValues(3)}
    \cup (IF training.cls = "SportsWalking"
          THEN {[training EXCEPT !.height_cm = h] : h \in ArgValues(4)}
          ELSE {})
    \cup (IF training.cls = "Swimming"
          THEN {[training EXCEPT !.length_pool_m = l, !.count_pool = c] :
                   l \in ArgValues(4), c \in ArgValues(5) \cup {0, 80}}
          ELSE {})

\* what C8 says of the distance apart from its scaling: for Running,
\* SportsWalking and Swimming it is action * LEN_STEP / 1000 with LEN_STEP
\* 1.38 for Swimming and 0.65 otherwise (to within the three roundings of
\* the float computation), it is not negative for action >= 0, it is 0 for
\* action 0, and it is the same for every duration, weight, height and pool
DistanceOfAction(dist) ==
    /\ training.cls \in {"Running", "SportsWalking", "Swimming"}
    /\ Near(dist, training.action * ClaimedStep(training.cls), 100 * M_IN_KM, 3)
    /\ (training.action >= 0) => ~dist.neg
    /\ (training.action = 0) => dist = Zero(FALSE)
    /\ \A other \in SameAction : Training_get_distance(other) = dist
    /\ Summarised => info.distance = dist

\* C8 (as claimed): the distance is action * LEN_STEP / 1000 as above, and
\* the distance of k * action is k times the distance of action for every
\* k, as float numbers compare (==).
C8_DistanceLinearInAction ==
    (pc \in {"show_training_info", "get_message", "print"}) =>
        LET dist == Training_get_distance(training)
        IN  /\ DistanceOfAction(dist)
            /\ \A k \in 0..MaxScale :
                  FEq(Training_get_distance(OtherAction(k * training.action)),
                      FMul[FromInt(k), dist])

\* the powers of two up to MaxScale
PowersOfTwo == {Pow2[j] : j \in 0..MaxScale} \cap 1..MaxScale

\* C8 (amended): the distance is action * LEN_STEP / 1000 as above; the
\* distance of k * action is k times the distance of action exactly when k
\* is 0 or a power of two, and to within the five roundings of the two
\* sides (four units in the last place) for any other k.
C8_DistanceLinearUpToRounding ==
    (pc \in {"show_training_info", "get_message", "print"}) =>
        LET dist == Training_get_distance(training)
        IN  /\ DistanceOfAction(dist)
            /\ \A k \in 0..MaxScale :
                  LET scaled == Training_get_distance(OtherAction(k * training.action))
                      times  == FMul[FromInt(k), dist]
                  IN  /\ WithinUlps(scaled, times, 4)
                      /\ (k \in {0} \cup PowersOfTwo) => FEq(scaled, times)

C8_Witness ==
    /\ pc = "print"
    /\ training.cls = "Swimming"
    /\ training.action = 9000
    /\ Near(info.distance, 1242, 100, 3)
    /\ FEq(Training_get_distance(OtherAction(2 * 9000)),
           FMul[FromInt(2), info.distance])
    /\ ~FEq(Training_get_distance(OtherAction(3 * 9000)),
            FMul[FromInt(3), info.distance])
    /\ WithinUlps(Training_get_distance(OtherAction(3 * 9000)),
                  FMul[FromInt(3), info.distance], 1)

\* the literal parts of the template as the claim writes it
TemplateEn ==
    << <<87, 111, 114, 107, 111, 117, 116, 32, 116, 121, 112, 101, 58, 32>>,
       <<59, 32, 68, 117, 114, 97, 116, 105, 111, 110, 58, 32>>,
       <<32, 104, 59, 32, 68, 105, 115, 116, 97, 110, 99, 101, 58, 32>>,
       <<32, 107, 109, 59, 32, 77, 101, 97, 110, 32, 115, 112, 101, 101, 100,
         58, 32>>,
       <<32, 107, 109, 47, 104, 59, 32, 67, 97, 108, 111, 114, 105, 101, 115,
         32, 98, 117, 114, 110, 101, 100, 58, 32>>,
       <<46>> >>

\* the literal parts of the template in Russian (U+0422 U+0438 U+043F ...)
TemplateRu ==
    << <<1058, 1080, 1087, 32, 1090, 1088, 1077, 1085, 1080, 1088, 1086, 1074,
         1082, 1080, 58, 32>>,
       <<59, 32, 1044, 1083, 1080, 1090, 1077, 1083, 1100, 1085, 1086, 1089,
         1090, 1100, 58, 32>>,
       <<32, 1095, 46, 59, 32, 1044, 1080, 1089, 1090, 1072, 1085, 1094, 1080,
         1103, 58, 32>>,
       <<32, 1082, 1084, 59, 32, 1057, 1088, 46, 32, 1089, 1082, 1086, 1088,
         1086, 1089, 1090, 1100, 58, 32>>,
       <<32, 1082, 1084, 47, 1095, 59, 32, 1055, 1086, 1090, 1088, 1072, 1095,
         1077, 1085, 1086, 32, 1082, 1082, 1072, 1083, 58, 32>>,
       <<46>> >>

\* the five fields of a line written with the literals lits, or <<>> when
\* the line is not of that form
ParseLine(line, lits) ==
    LET p1 == Len(lits[1]) + 1
        e1 == Find(line, lits[2], p1)
        p2 == e1 + Len(lits[2])
        e2 == Find(line, lits[3], p2)
        p3 == e2 + Len(lits[3])
        e3 == Find(line, lits[4], p3)
        p4 == e3 + Len(lits[4])
        e4 == Find(line, lits[5], p4)
        p5 == e4 + Len(lits[5])
        e5 == Len(line) - Len(lits[6]) + 1
    IN  IF /\ StartsWith(line, lits[1], 1)
           /\ e1 > 0 /\ e2 > 0 /\ e3 > 0 /\ e4 > 0
           /\ e5 >= p5
           /\ StartsWith(line, lits[6], e5)
        THEN << SubSeq(line, p1, e1 - 1), SubSeq(line, p2, e2 - 1),
                SubSeq(line, p3, e3 - 1), SubSeq(line, p4, e4 - 1),
                SubSeq(line, p5, e5 - 1) >>
        ELSE <<>>

\* the text without its minus sign
Unsigned(f) == IF Len(f) > 0 /\ f[1] = 45 THEN Tail(f) ELSE f

\* f is digits, a point, and exactly three digits, with an optional sign
IsFixed3(f) ==
    LET body == Unsigned(f)
        n    == Len(body)
    IN  /\ n >= 5
        /\ body[n - 3] = 46
        /\ \A i \in (1..n) \ {n - 3} : body[i] \in 48..57

\* the number written by the digits of s
DigitsValue[s \in Seq(Int)] ==
    IF s = <<>> THEN 0
    ELSE 10 * DigitsValue[SubSeq(s, 1, Len(s) - 1)] + (s[Len(s)] - 48)

\* f shows the float x to within half a thousandth, with the sign of x:
\* with k the thousandths that f writes, |2 * k - 2000 * |x|| <= 1
ShowsValue(f, x) ==
    LET body == Unsigned(f)
        n    == Len(body)
        k    == 1000 * DigitsValue[SubSeq(body, 1, n - 4)]
                  + DigitsValue[SubSeq(body, n - 2, n)]
        up   == IF x.exp > 0 THEN x.exp ELSE 0
        down == IF x.exp < 0 THEN -x.exp ELSE 0
        lhs  == BigShiftLeft[Limbs[2 * k], down]
        rhs  == BigShiftLeft[BigMulSmall(x.man, 2000), up]
    IN  /\ (f[1] = 45) <=> x.neg
        /\ BigCompare[BigAbsDiff(lhs, rhs), BigShiftLeft[<<1>>, down]] <= 0

\* the line printed for info is the template lits with the five fields of
\* info in order, each number with exactly three decimals
FollowsTemplate(lits) ==
    LET f == ParseLine(message, lits)
    IN  /\ Len(f) = 5
        /\ f[1] = NameText(info.training_type)
        /\ \A i \in 2..5 : IsFixed3(f[i])
        /\ ShowsValue(f[2], FromInt(info.duration))
        /\ ShowsValue(f[3], info.distance)
        /\ ShowsValue(f[4], info.speed)
        /\ ShowsValue(f[5], info.calories)

\* C9 (as claimed): get_message gives "Workout type: ...; Duration: ... h;
\* Distance: ... km; Mean speed: ... km/h; Calories burned: ....", the five
\* fields in that order and every number with exactly three decimals.
C9_EnglishTemplate == (pc = "print") => FollowsTemplate(TemplateEn)

\* C9 (amended): get_message gives the template with the labels in
\* Russian, as homework.py writes them (the duration unit with a full
\* stop), the five fields in the same order and every number with exactly
\* three decimals.
C9_RussianTemplate == (pc = "print") => FollowsTemplate(TemplateRu)

C9_Witness ==
    /\ pc = "print"
    /\ Item = WalkPackage
    /\ ParseLine(message, TemplateRu)
         = << NameText("SportsWalking"),
              <<49, 46, 48, 48, 48>>,
              <<53, 46, 56, 53, 48>>,
              <<53, 46, 56, 53, 48>>,
              <<49, 53, 55, 46, 53, 48, 48>> >>

\* the InfoMessage has its five fields, each with a value
Populated(msg) ==
    /\ DOMAIN msg = {"training_type", "duration", "distance", "speed", "calories"}
    /\ msg.training_type \in {"Running", "SportsWalking", "Swimming"}
    /\ msg.duration \in Int
    /\ msg.distance \in Float
    /\ msg.speed \in Float
    /\ msg.calories \in Float

\* read_package was given a known type and as many values as its class takes
WellFormedItem ==
    /\ Dispatched
    /\ ItemType \in KnownTypes
    /\ Len(ItemData) = Arity(ItemType)

\* C10 (as claimed): for a known type with the matching number of values
\* read_package returns a record of a concrete class, and
\* show_training_info on it never raises NotImplementedError and always
\* returns an InfoMessage with the five fields populated.
C10_AlwaysSummary ==
    WellFormedItem =>
        /\ training.cls \in {"Running", "SportsWalking", "Swimming"}
        /\ exc # "NotImplementedError"
        /\ pc # "traceback"
        /\ Summarised => Populated(info)

\* C10 (amended): for a known type with the matching number of values
\* read_package returns a record of a concrete class, and
\* show_training_info on it never raises NotImplementedError; it returns
\* an InfoMessage with the five fields populated, unless the duration is 0
\* or the height of a SportsWalking record is 0, when it raises
\* ZeroDivisionError and returns no InfoMessage at all.
C10_SummaryOrZeroDivision ==
    WellFormedItem =>
        /\ training.cls \in {"Running", "SportsWalking", "Swimming"}
        /\ exc # "NotImplementedError"
        /\ Summarised => (exc = "None" /\ Populated(info))
        /\ (pc = "traceback") =>
              /\ exc = "ZeroDivisionError"
              /\ Len(stdout) = idx - 1
              /\ (idx = 1) => info = None
              /\ \/ training.duration_h = 0
                 \/ training.cls = "SportsWalking" /\ training.height_cm = 0
        /\ (/\ pc \in {"get_message", "print", "traceback"}
            /\ training.duration_h # 0
            /\ training.cls = "SportsWalking" => training.height_cm # 0)
              => Summarised

C10_Witness ==
    /\ WellFormedItem
    /\ pc = "get_message"
    /\ ItemType = "WLK"
    /\ training.cls = "SportsWalking"
    /\ Populated(info)
    /\ exc = "None"

====
